---- MODULE Spec2Model ----
(***************************************************************************)
(* Model of the Alexa shopping list tool server (src/mcp_server.py) and of *)
(* the remote list accessor it calls (src/src/api/alexa_api.py).           *)
(*                                                                         *)
(* Python strings are sequences of one-character strings, so that          *)
(* str.strip() and str.lower() are computed and not assumed.  A fetched    *)
(* item is a record; its field pos is the position of the dict object in   *)
(* the fetched list (the identity of the Python object), which dict        *)
(* equality ignores.                                                       *)
(***************************************************************************)
EXTENDS Integers, Sequences, FiniteSets, TLC

\* ---------------------------------------------------------------------
\* Bounds of the model
\* ---------------------------------------------------------------------
MaxBatch == 2
MaxItems == 2

\* ---------------------------------------------------------------------
\* Strings
\* ---------------------------------------------------------------------
S_blank == <<" ", " ">>
S_milk == <<"m", "i", "l", "k">>
S_Milk == <<"M", "i", "l", "k">>
S_Milk_padded == <<" ", "M", "i", "l", "k", " ">>
S_Eggs == <<"E", "g", "g", "s">>
S_eggs_padded == <<" ", "e", "g", "g", "s">>

\* the names a caller may submit
RawNames == {S_blank, S_milk, S_Milk_padded, S_Eggs}

\* the display names the remote service may hold
ItemValues == {S_Milk, S_eggs_padded}

Batches == UNION {[1..n -> RawNames] : n \in 0..MaxBatch}

lower_char(c) ==
    CASE c = "M" -> "m"
      [] c = "E" -> "e"
      [] OTHER -> c

\* a comparison that forgets to fold the case
lower_keeps_case(s) == s

\* str.lower()
lower(s) == [k \in 1..Len(s) |-> lower_char(s[k])]

RECURSIVE lstrip(_)
lstrip(s) == IF s # << >> /\ Head(s) = " " THEN lstrip(Tail(s)) ELSE s

RECURSIVE rstrip(_)
rstrip(s) ==
    IF s # << >> /\ s[Len(s)] = " " THEN rstrip(SubSeq(s, 1, Len(s) - 1)) ELSE s

\* str.strip()
strip(s) == rstrip(lstrip(s))

\* ---------------------------------------------------------------------
\* The remote list
\* ---------------------------------------------------------------------
NoId == 0

RemoteItems == [id : 0..MaxItems, value : ItemValues, completed : BOOLEAN]

\* the lists the remote service may hold: the item at position k has the
\* server-assigned id k, or no id
RemoteLists ==
    {s \in UNION {[1..n -> RemoteItems] : n \in 0..MaxItems} :
        \A k \in 1..Len(s) : s[k].id \in {NoId, k}}

VARIABLES
    pc,                 \* "idle", "loop", "done"
    tool,               \* the tool being executed
    values_to_process,  \* the batch of names
    idx,                \* position of the next name of the batch
    all_items,          \* result of get_shopping_list_items
    incomplete_items,   \* candidate pool of delete_item and mark_complete
    searchable_items,   \* candidate pool of mark_incomplete
    results,            \* outcome buckets
    ret,                \* value returned to the caller
    calls,              \* remote calls issued by the invocation
    remote,             \* the list held by the remote service
    fetch_count,        \* fetch calls issued by the invocation
    iteration,          \* clear_completed_items: iterations started
    total_deleted_count,
    total_failed_items,
    observed_completed, \* completed items seen in the snapshots so far
    all_succeeded       \* proxy tools: no name of the batch has failed

batch_vars == <<values_to_process, idx, incomplete_items, searchable_items,
                results>>

proxy_vars == <<all_succeeded>>

clear_vars == <<iteration, total_deleted_count, total_failed_items,
                observed_completed>>

vars == <<pc, tool, values_to_process, idx, all_items, incomplete_items,
          searchable_items, results, ret, calls, remote, fetch_count,
          iteration,
          total_deleted_count, total_failed_items, observed_completed,
          all_succeeded>>

\* ---------------------------------------------------------------------
\* Remote list accessor
\* ---------------------------------------------------------------------
NoneItems == [is_none |-> TRUE, items |-> << >>]

\* a fetch that answers with an empty list whatever the service holds
get_shopping_list_items_blind(held, ok) ==
    IF ok THEN [is_none |-> FALSE, items |-> << >>] ELSE NoneItems

\* the list returned by a successful fetch of the list held by the
\* service, None by a failed one
get_shopping_list_items(held, ok) ==
    IF ok
    THEN [is_none |-> FALSE,
          items |-> [k \in 1..Len(held) |->
                        [pos |-> k, id |-> held[k].id,
                         value |-> held[k].value,
                         completed |-> held[k].completed]]]
    ELSE NoneItems

\* the lists the service may hold when an invocation fetches: other
\* clients change the list between invocations, and a failed fetch
\* reveals nothing
Held(ok) == IF ok THEN RemoteLists ELSE {remote}

\* a filter that keeps every item
filter_nothing(list_items) == list_items

filter_incomplete_items(list_items) ==
    SelectSeq(list_items, LAMBDA item : ~item.completed)

FetchCall(ok) ==
    [op |-> "fetch", k |-> 0, pos |-> 0, id |-> NoId, value |-> << >>,
     completed |-> FALSE, ok |-> ok]

AddCall(k, value, ok) ==
    [op |-> "add", k |-> k, pos |-> 0, id |-> NoId, value |-> value,
     completed |-> FALSE, ok |-> ok]

DeleteCall(k, item, ok) ==
    [op |-> "delete", k |-> k, pos |-> item.pos, id |-> item.id,
     value |-> item.value, completed |-> item.completed, ok |-> ok]

\* the payload is a copy of the item with 'completed' set to the new status
UpdateCall(k, item, completed_status, ok) ==
    [op |-> "update", k |-> k, pos |-> item.pos, id |-> item.id,
     value |-> item.value, completed |-> completed_status, ok |-> ok]

\* an update that writes the new status into the caller's dict
update_in_place(list_item, completed_status) ==
    [list_item EXCEPT !.completed = completed_status]

\* list_item_copy = list_item.copy(): the status is set on the copy, the
\* dict the caller passed is left as it was
caller_item_after_update(list_item, completed_status) == list_item

MaxOf(S) == IF S = {} THEN 0 ELSE CHOOSE x \in S : \A y \in S : y <= x

\* an add that checks the name against the items already on the list
remote_add_unless_present(value) ==
    IF \E k \in 1..Len(remote) : lower(strip(remote[k].value)) = lower(value)
    THEN remote
    ELSE Append(remote, [id |-> 1 + Len(remote), value |-> value,
                         completed |-> FALSE])

\* effect of a successful add on the remote list
remote_add(value) ==
    Append(remote,
           [id |-> 1 + MaxOf({remote[k].id : k \in 1..Len(remote)}
                             \cup {Len(remote)}),
            value |-> value, completed |-> FALSE])

\* effect of a successful delete on the remote list
remote_delete(item) ==
    SelectSeq(remote, LAMBDA r : r.id # item.id)

\* effect of a successful update on the remote list
remote_update(item, completed_status) ==
    [k \in 1..Len(remote) |->
        IF item.id # NoId /\ remote[k].id = item.id
        THEN [remote[k] EXCEPT !.completed = completed_status]
        ELSE remote[k]]

\* ---------------------------------------------------------------------
\* Helpers of the batch tools
\* ---------------------------------------------------------------------
\* a check that only rejects the empty list
no_valid_values_empty_only(values) == values = << >>

\* not values_to_process or not any(v.strip() for v in values_to_process)
no_valid_values(values) ==
    values = << >> \/ ~(\E k \in 1..Len(values) : strip(values[k]) # << >>)

\* a loop that never skips a name
skip_value_never(val_strip) == FALSE

\* if not val_strip: continue
skip_value(val_strip) == val_strip = << >>

\* item.get('value', '').strip().lower() == val_strip.lower()
value_matches(item, val_strip) == lower(strip(item.value)) = lower(val_strip)

\* a search that keeps the last match instead of the first
find_last(items, val_strip) ==
    IF \E k \in 1..Len(items) : value_matches(items[k], val_strip)
    THEN CHOOSE k \in 1..Len(items) :
            /\ value_matches(items[k], val_strip)
            /\ \A j \in (k + 1)..Len(items) : ~value_matches(items[j], val_strip)
    ELSE 0

\* position of the first item of the pool matching the name, 0 if none
find_first(items, val_strip) ==
    IF \E k \in 1..Len(items) : value_matches(items[k], val_strip)
    THEN CHOOSE k \in 1..Len(items) :
            /\ value_matches(items[k], val_strip)
            /\ \A j \in 1..(k - 1) : ~value_matches(items[j], val_strip)
    ELSE 0

\* dict equality
dict_eq(a, b) == a.id = b.id /\ a.value = b.value /\ a.completed = b.completed

\* a pool that keeps the mutated item
list_remove_nothing(items, x) == items

\* list.remove(x): removes the first element equal to x
list_remove(items, x) ==
    LET first == CHOOSE k \in 1..Len(items) :
                    /\ dict_eq(items[k], x)
                    /\ \A j \in 1..(k - 1) : ~dict_eq(items[j], x)
    IN [k \in 1..(Len(items) - 1) |->
            IF k < first THEN items[k] ELSE items[k + 1]]

\* a bucket that is overwritten instead of extended
bucket_assign(res, bucket, val_strip) ==
    [res EXCEPT ![bucket] = <<val_strip>>]

\* a bucket that is extended at the front
bucket_prepend(res, bucket, val_strip) ==
    [res EXCEPT ![bucket] = <<val_strip>> \o @]

\* results[bucket].append(val_strip)
bucket_append(res, bucket, val_strip) ==
    [res EXCEPT ![bucket] = Append(@, val_strip)]

EmptyResults(buckets) == [b \in buckets |-> << >>]

NoResults == EmptyResults({})

NoRet == [kind |-> "none", text |-> "", lines |-> << >>]

ErrorRet(text) == [kind |-> "error", text |-> text, lines |-> << >>]

\* a summary that lists every bucket, empty or not
format_summary_all(res, order, labels) ==
    [kind |-> "summary", text |-> "",
     lines |-> [n \in 1..Len(order) |->
                   [label |-> labels[n], names |-> res[order[n]]]]]

\* one line per non-empty bucket, in the order given
format_summary(res, order, labels) ==
    LET F[n \in 0..Len(order)] ==
            IF n = 0 THEN << >>
            ELSE IF res[order[n]] # << >>
                 THEN Append(F[n - 1], [label |-> labels[n],
                                        names |-> res[order[n]]])
                 ELSE F[n - 1]
        summary == F[Len(order)]
    IN IF summary # << >>
       THEN [kind |-> "summary", text |-> "", lines |-> summary]
       ELSE [kind |-> "sentinel",
             text |-> "No actions performed or items provided.",
             lines |-> << >>]

\* ---------------------------------------------------------------------
\* State after construction
\* ---------------------------------------------------------------------
Constructed ==
    /\ pc = "idle"
    /\ tool = "none"
    /\ values_to_process = << >>
    /\ idx = 0
    /\ all_items = NoneItems
    /\ incomplete_items = << >>
    /\ searchable_items = << >>
    /\ results = NoResults
    /\ ret = NoRet
    /\ calls = << >>
    /\ fetch_count = 0
    /\ iteration = 0
    /\ total_deleted_count = 0
    /\ total_failed_items = << >>
    /\ observed_completed = 0
    /\ all_succeeded = TRUE

Init == Constructed /\ remote = << >>

\* ---------------------------------------------------------------------
\* get_list and get_completed_list
\* ---------------------------------------------------------------------
\* a filter that overlooks the completed items without id
completed_items_with_id(list_items) ==
    SelectSeq(list_items, LAMBDA item : item.completed /\ item.id # NoId)

\* [item for item in all_items if item.get('completed', False)]
completed_items(list_items) ==
    SelectSeq(list_items, LAMBDA item : item.completed)

\* a returned list holding one message
StringList(text) == [kind |-> "message", text |-> text, lines |-> << >>]

\* a returned list holding item values
ValueList(item_values) ==
    [kind |-> "values", text |-> "",
     lines |-> <<[label |-> "", names |-> item_values]>>]

\* [item.get('value', '<Unknown Item>') for item in items]
values_of(items) == [k \in 1..Len(items) |-> items[k].value]

get_list ==
    /\ pc = "idle"
    /\ tool' = "get_list"
    /\ \E ok \in BOOLEAN : \E held \in Held(ok) :
        LET fetched == get_shopping_list_items(held, ok)
        IN /\ remote' = held
           /\ all_items' = fetched
           /\ calls' = Append(calls, FetchCall(ok))
           /\ fetch_count' = fetch_count + 1
           /\ IF fetched.is_none
              THEN /\ ret' = StringList("Error: Could not retrieve shopping list items.")
                   /\ UNCHANGED incomplete_items
              ELSE /\ incomplete_items' = filter_incomplete_items(fetched.items)
                   /\ ret' = IF incomplete_items' = << >>
                             THEN StringList("Shopping list is empty or has no incomplete items.")
                             ELSE ValueList(values_of(incomplete_items'))
    /\ pc' = "done"
    /\ UNCHANGED <<values_to_process, idx, searchable_items, results,
                   clear_vars,
                   proxy_vars>>

get_completed_list ==
    /\ pc = "idle"
    /\ tool' = "get_completed_list"
    /\ \E ok \in BOOLEAN : \E held \in Held(ok) :
        LET fetched == get_shopping_list_items(held, ok)
        IN /\ remote' = held
           /\ all_items' = fetched
           /\ calls' = Append(calls, FetchCall(ok))
           /\ fetch_count' = fetch_count + 1
           /\ ret' = IF fetched.is_none
                     THEN StringList("Error: Could not retrieve shopping list items.")
                     ELSE IF completed_items(fetched.items) = << >>
                     THEN StringList("No completed items found on the list.")
                     ELSE ValueList(values_of(completed_items(fetched.items)))
    /\ pc' = "done"
    /\ UNCHANGED <<values_to_process, idx, incomplete_items,
                   searchable_items, results, clear_vars,
                   proxy_vars>>

\* ---------------------------------------------------------------------
\* add_item
\* ---------------------------------------------------------------------
AddBuckets == {"added", "failed"}

add_item(values) ==
    /\ pc = "idle"
    /\ tool' = "add_item"
    /\ values_to_process' = values
    /\ IF no_valid_values(values)
       THEN /\ ret' = ErrorRet("Error: No valid item values provided to add.")
            /\ pc' = "done"
            /\ UNCHANGED <<idx, results>>
       ELSE /\ results' = EmptyResults(AddBuckets)
            /\ idx' = 1
            /\ pc' = "loop"
            /\ UNCHANGED ret
    /\ UNCHANGED <<all_items, incomplete_items, searchable_items, calls,
                   remote, fetch_count, clear_vars,
                   proxy_vars>>

\* the summary returned after the last name
add_item_summary(res) ==
    format_summary(res, <<"added", "failed">>,
                   <<"Added: ", "Failed to add: ">>)

add_item_step ==
    /\ pc = "loop" /\ tool = "add_item" /\ idx <= Len(values_to_process)
    /\ LET val_strip == strip(values_to_process[idx])
       IN IF skip_value(val_strip)
          THEN UNCHANGED <<results, calls, remote>>
          ELSE \E success \in BOOLEAN :
                /\ calls' = Append(calls, AddCall(idx, val_strip, success))
                /\ IF success
                   THEN /\ results' = bucket_append(results, "added", val_strip)
                        /\ remote' = remote_add(val_strip)
                   ELSE /\ results' = bucket_append(results, "failed", val_strip)
                        /\ UNCHANGED remote
    /\ idx' = idx + 1
    /\ IF idx' > Len(values_to_process)
       THEN ret' = add_item_summary(results') /\ pc' = "done"
       ELSE UNCHANGED <<pc, ret>>
    /\ UNCHANGED <<tool, values_to_process, all_items, incomplete_items,
                   searchable_items, fetch_count, clear_vars,
                   proxy_vars>>

\* ---------------------------------------------------------------------
\* delete_item
\* ---------------------------------------------------------------------
DeleteBuckets == {"deleted", "not_found", "missing_id", "failed"}

\* the invocation, given the list the service holds and whether the
\* fetch succeeds
delete_item_fetching(values, held, ok) ==
    /\ pc = "idle"
    /\ tool' = "delete_item"
    /\ values_to_process' = values
    /\ IF no_valid_values(values)
       THEN /\ ret' = ErrorRet("Error: No valid item values provided for deletion.")
            /\ pc' = "done"
            /\ UNCHANGED <<idx, results, all_items, incomplete_items, calls,
                           fetch_count, remote>>
       ELSE LET fetched == get_shopping_list_items(held, ok)
            IN /\ remote' = held
               /\ all_items' = fetched
               /\ calls' = Append(calls, FetchCall(ok))
               /\ fetch_count' = fetch_count + 1
               /\ incomplete_items' =
                      IF ~fetched.is_none /\ fetched.items # << >>
                      THEN filter_incomplete_items(fetched.items)
                      ELSE << >>
               /\ results' = EmptyResults(DeleteBuckets)
               /\ idx' = 1
               /\ pc' = "loop"
               /\ UNCHANGED ret
    /\ UNCHANGED <<searchable_items, clear_vars,
                   proxy_vars>>

delete_item(values) ==
    \E ok \in BOOLEAN : \E held \in Held(ok) :
        delete_item_fetching(values, held, ok)

\* the summary returned after the last name
delete_item_summary(res) ==
    format_summary(res,
        <<"deleted", "not_found", "missing_id", "failed">>,
        <<"Deleted: ", "Not found (incomplete): ",
          "Found but missing ID: ", "Failed to delete: ">>)

delete_item_step ==
    /\ pc = "loop" /\ tool = "delete_item" /\ idx <= Len(values_to_process)
    /\ LET val_strip == strip(values_to_process[idx])
           m == find_first(incomplete_items, val_strip)
       IN IF skip_value(val_strip)
          THEN UNCHANGED <<results, calls, remote, incomplete_items>>
          ELSE IF m = 0
          THEN /\ results' = bucket_append(results, "not_found", val_strip)
               /\ UNCHANGED <<calls, remote, incomplete_items>>
          ELSE IF incomplete_items[m].id = NoId
          THEN /\ results' = bucket_append(results, "missing_id", val_strip)
               /\ UNCHANGED <<calls, remote, incomplete_items>>
          ELSE \E success \in BOOLEAN :
                /\ calls' = Append(calls,
                                   DeleteCall(idx, incomplete_items[m], success))
                /\ IF success
                   THEN /\ results' = bucket_append(results, "deleted", val_strip)
                        /\ incomplete_items' =
                               list_remove(incomplete_items, incomplete_items[m])
                        /\ remote' = remote_delete(incomplete_items[m])
                   ELSE /\ results' = bucket_append(results, "failed", val_strip)
                        /\ UNCHANGED <<incomplete_items, remote>>
    /\ idx' = idx + 1
    /\ IF idx' > Len(values_to_process)
       THEN ret' = delete_item_summary(results') /\ pc' = "done"
       ELSE UNCHANGED <<pc, ret>>
    /\ UNCHANGED <<tool, values_to_process, all_items, searchable_items,
                   fetch_count, clear_vars,
                   proxy_vars>>

\* ---------------------------------------------------------------------
\* mark_complete
\* ---------------------------------------------------------------------
MarkCompleteBuckets == {"marked", "not_found", "already_complete", "failed"}

\* the invocation, given the list the service holds and whether the
\* fetch succeeds
mark_complete_fetching(values, held, ok) ==
    /\ pc = "idle"
    /\ tool' = "mark_complete"
    /\ values_to_process' = values
    /\ IF no_valid_values(values)
       THEN /\ ret' = ErrorRet("Error: No valid item values provided to mark complete.")
            /\ pc' = "done"
            /\ UNCHANGED <<idx, results, all_items, incomplete_items, calls,
                           fetch_count, remote>>
       ELSE LET fetched == get_shopping_list_items(held, ok)
            IN /\ remote' = held
               /\ all_items' = fetched
               /\ calls' = Append(calls, FetchCall(ok))
               /\ fetch_count' = fetch_count + 1
               /\ incomplete_items' =
                      IF ~fetched.is_none /\ fetched.items # << >>
                      THEN filter_incomplete_items(fetched.items)
                      ELSE << >>
               /\ results' = EmptyResults(MarkCompleteBuckets)
               /\ idx' = 1
               /\ pc' = "loop"
               /\ UNCHANGED ret
    /\ UNCHANGED <<searchable_items, clear_vars,
                   proxy_vars>>

mark_complete(values) ==
    \E ok \in BOOLEAN : \E held \in Held(ok) :
        mark_complete_fetching(values, held, ok)

\* the summary returned after the last name
mark_complete_summary(res) ==
    format_summary(res,
        <<"marked", "not_found", "already_complete", "failed">>,
        <<"Marked complete: ", "Not found (incomplete): ",
          "Already complete: ", "Failed to mark complete: ">>)

mark_complete_step ==
    /\ pc = "loop" /\ tool = "mark_complete" /\ idx <= Len(values_to_process)
    /\ LET val_strip == strip(values_to_process[idx])
           m == find_first(incomplete_items, val_strip)
       IN IF skip_value(val_strip)
          THEN UNCHANGED <<results, calls, remote, incomplete_items>>
          ELSE IF m = 0
          THEN /\ results' = bucket_append(results, "not_found", val_strip)
               /\ UNCHANGED <<calls, remote, incomplete_items>>
          ELSE IF incomplete_items[m].completed
          THEN /\ results' = bucket_append(results, "already_complete", val_strip)
               /\ UNCHANGED <<calls, remote, incomplete_items>>
          ELSE \E success \in BOOLEAN :
                /\ calls' = Append(calls,
                                   UpdateCall(idx, incomplete_items[m], TRUE, success))
                /\ IF success
                   THEN /\ results' = bucket_append(results, "marked", val_strip)
                        /\ incomplete_items' =
                               list_remove(incomplete_items, incomplete_items[m])
                        /\ remote' = remote_update(incomplete_items[m], TRUE)
                   ELSE /\ results' = bucket_append(results, "failed", val_strip)
                        /\ incomplete_items' =
                               [incomplete_items EXCEPT
                                   ![m] = caller_item_after_update(@, TRUE)]
                        /\ UNCHANGED remote
    /\ idx' = idx + 1
    /\ IF idx' > Len(values_to_process)
       THEN ret' = mark_complete_summary(results') /\ pc' = "done"
       ELSE UNCHANGED <<pc, ret>>
    /\ UNCHANGED <<tool, values_to_process, all_items, searchable_items,
                   fetch_count, clear_vars,
                   proxy_vars>>

\* ---------------------------------------------------------------------
\* mark_incomplete
\* ---------------------------------------------------------------------
\* a success branch that leaves the local copy as it was
set_local_nothing(items, item_index) == items

\* searchable_items[item_index]['completed'] = False
set_local_incomplete(items, item_index) ==
    [items EXCEPT ![item_index].completed = FALSE]

MarkIncompleteBuckets == {"unmarked", "not_found", "already_incomplete", "failed"}

\* the invocation, given the list the service holds and whether the
\* fetch succeeds
mark_incomplete_fetching(values, held, ok) ==
    /\ pc = "idle"
    /\ tool' = "mark_incomplete"
    /\ values_to_process' = values
    /\ IF no_valid_values(values)
       THEN /\ ret' = ErrorRet("Error: No valid item values provided to mark incomplete.")
            /\ pc' = "done"
            /\ UNCHANGED <<idx, results, all_items, searchable_items, calls,
                           fetch_count, remote>>
       ELSE LET fetched == get_shopping_list_items(held, ok)
            IN /\ remote' = held
               /\ all_items' = fetched
               /\ calls' = Append(calls, FetchCall(ok))
               /\ fetch_count' = fetch_count + 1
               /\ IF fetched.is_none
                  THEN /\ ret' = ErrorRet("Error: Could not retrieve shopping list items to process request.")
                       /\ pc' = "done"
                       /\ UNCHANGED <<idx, results, searchable_items>>
                  ELSE /\ results' = EmptyResults(MarkIncompleteBuckets)
                       /\ searchable_items' = fetched.items
                       /\ idx' = 1
                       /\ pc' = "loop"
                       /\ UNCHANGED ret
    /\ UNCHANGED <<incomplete_items, clear_vars,
                   proxy_vars>>

mark_incomplete(values) ==
    \E ok \in BOOLEAN : \E held \in Held(ok) :
        mark_incomplete_fetching(values, held, ok)

\* the summary returned after the last name
mark_incomplete_summary(res) ==
    format_summary(res,
        <<"unmarked", "not_found", "already_incomplete", "failed">>,
        <<"Marked incomplete: ", "Not found: ",
          "Already incomplete: ", "Failed to mark incomplete: ">>)

mark_incomplete_step ==
    /\ pc = "loop" /\ tool = "mark_incomplete" /\ idx <= Len(values_to_process)
    /\ LET val_strip == strip(values_to_process[idx])
           item_index == find_first(searchable_items, val_strip)
       IN IF skip_value(val_strip)
          THEN UNCHANGED <<results, calls, remote, searchable_items>>
          ELSE IF item_index = 0
          THEN /\ results' = bucket_append(results, "not_found", val_strip)
               /\ UNCHANGED <<calls, remote, searchable_items>>
          ELSE IF ~searchable_items[item_index].completed
          THEN /\ results' = bucket_append(results, "already_incomplete", val_strip)
               /\ UNCHANGED <<calls, remote, searchable_items>>
          ELSE \E success \in BOOLEAN :
                /\ calls' = Append(calls,
                                   UpdateCall(idx, searchable_items[item_index],
                                              FALSE, success))
                /\ IF success
                   THEN /\ results' = bucket_append(results, "unmarked", val_strip)
                        /\ searchable_items' =
                               set_local_incomplete(searchable_items, item_index)
                        /\ remote' = remote_update(searchable_items[item_index], FALSE)
                   ELSE /\ results' = bucket_append(results, "failed", val_strip)
                        /\ searchable_items' =
                               [searchable_items EXCEPT
                                   ![item_index] =
                                       caller_item_after_update(@, FALSE)]
                        /\ UNCHANGED remote
    /\ idx' = idx + 1
    /\ IF idx' > Len(values_to_process)
       THEN ret' = mark_incomplete_summary(results') /\ pc' = "done"
       ELSE UNCHANGED <<pc, ret>>
    /\ UNCHANGED <<tool, values_to_process, all_items, incomplete_items,
                   fetch_count, clear_vars,
                   proxy_vars>>

\* ---------------------------------------------------------------------
\* clear_completed_items
\* ---------------------------------------------------------------------
\* max_iterations = 10
max_iterations == 10

S_missing_id == <<" ", "(", "M", "i", "s", "s", "i", "n", "g", " ", "I", "D", ")">>

\* a membership test that never finds the value
contains_never(list, x) == FALSE

\* x in list
contains(list, x) == \E k \in 1..Len(list) : list[k] = x

\* the positions of a batch for which delete_shopping_list_item is called
deletable(batch) == {n \in 1..Len(batch) : batch[n].id # NoId}

\* a for loop that gives up after the first item of the batch
delete_batch_first_only(batch, success, deleted0, failed0, k) ==
    [deleted |-> IF batch[1].id # NoId /\ success[1]
                 THEN deleted0 + 1 ELSE deleted0,
     total_failed |-> failed0,
     batch_failed |-> << >>,
     log |-> IF batch[1].id # NoId
             THEN <<DeleteCall(k, batch[1], success[1])>> ELSE << >>]

\* the for loop over completed_items_batch: the state after each item
delete_batch(batch, success, deleted0, failed0, k) ==
    LET F[n \in 0..Len(batch)] ==
            IF n = 0
            THEN [deleted |-> deleted0, total_failed |-> failed0,
                  batch_failed |-> << >>, log |-> << >>]
            ELSE LET item == batch[n]
                     p == F[n - 1]
                 IN IF item.id = NoId
                    THEN IF ~contains(p.total_failed, item.value \o S_missing_id)
                         THEN [p EXCEPT !.total_failed =
                                   Append(@, item.value \o S_missing_id)]
                         ELSE p
                    ELSE IF success[n]
                    THEN [p EXCEPT !.deleted = @ + 1,
                                   !.log = Append(@, DeleteCall(k, item, TRUE))]
                    ELSE IF /\ ~contains(p.batch_failed, item.value)
                            /\ ~contains(p.total_failed, item.value)
                    THEN [p EXCEPT !.batch_failed = Append(@, item.value),
                                   !.log = Append(@, DeleteCall(k, item, FALSE))]
                    ELSE [p EXCEPT !.log = Append(@, DeleteCall(k, item, FALSE))]
    IN F[Len(batch)]

\* effect of the successful deletes of a log on the remote list
remote_delete_all(log) ==
    SelectSeq(remote, LAMBDA r :
        ~\E n \in 1..Len(log) :
            log[n].op = "delete" /\ log[n].ok /\ log[n].id = r.id)

clear_summary(iterations, deleted, failed) ==
    [kind |-> "clear_summary", text |-> "",
     lines |-> <<[label |-> "iteration(s)", names |-> <<iterations>>],
                 [label |-> "Total Deleted", names |-> <<deleted>>]>>
               \o (IF failed # << >>
                   THEN <<[label |-> "Failures encountered for", names |-> failed]>>
                   ELSE << >>)]

\* an error that says nothing of the work done
clear_error_bare(deleted, failed) ==
    [kind |-> "error",
     text |-> "Error: Could not retrieve shopping list items during clearing process.",
     lines |-> << >>]

clear_error(deleted, failed) ==
    [kind |-> "error",
     text |-> "Error: Could not retrieve shopping list items during clearing process.",
     lines |-> IF deleted > 0 \/ failed # << >>
               THEN <<[label |-> "So far: Deleted", names |-> <<deleted>>],
                      [label |-> "Failures", names |-> <<Len(failed)>>]>>
               ELSE << >>]

clear_completed_items ==
    /\ pc = "idle"
    /\ tool' = "clear_completed_items"
    /\ total_deleted_count' = 0
    /\ total_failed_items' = << >>
    /\ iteration' = 0
    /\ pc' = "clear_loop"
    /\ UNCHANGED <<proxy_vars, batch_vars, all_items, ret, calls, remote, fetch_count,
                   observed_completed>>

\* a loop condition that is off by one
loop_continues_inclusive(it) == it <= max_iterations

\* while iteration < max_iterations
loop_continues(it) == it < max_iterations

\* one pass of the while loop, given the result of its fetch and the
\* answers of the service to the delete calls
clear_iteration(fetched, success) ==
    /\ pc = "clear_loop" /\ loop_continues(iteration)
    /\ iteration' = iteration + 1
    /\ fetch_count' = fetch_count + 1
    /\ IF fetched.is_none
       THEN /\ ret' = clear_error(total_deleted_count, total_failed_items)
            /\ pc' = "done"
            /\ calls' = <<FetchCall(FALSE)>>
            /\ UNCHANGED <<total_deleted_count, total_failed_items,
                           observed_completed>>
       ELSE LET completed_items_batch == completed_items(fetched.items)
            IN /\ observed_completed' =
                      observed_completed + Len(completed_items_batch)
               /\ IF completed_items_batch = << >>
                  THEN /\ ret' = clear_summary(iteration', total_deleted_count,
                                               total_failed_items)
                       /\ pc' = "done"
                       /\ calls' = <<FetchCall(TRUE)>>
                       /\ UNCHANGED <<total_deleted_count, total_failed_items>>
                  ELSE LET r == delete_batch(completed_items_batch, success,
                                             total_deleted_count,
                                             total_failed_items, iteration')
                       IN /\ total_deleted_count' = r.deleted
                          /\ total_failed_items' = r.total_failed \o r.batch_failed
                          /\ calls' = <<FetchCall(TRUE)>> \o r.log
                          /\ UNCHANGED <<pc, ret>>
    /\ all_items' = fetched
    /\ UNCHANGED <<tool, proxy_vars, batch_vars>>

\* the answers the service may give to the delete calls of an iteration
Answers(fetched) == [deletable(completed_items(fetched.items)) -> BOOLEAN]

\* the service removes the items whose deletion it reports as successful
clear_iteration_removing ==
    \E ok \in BOOLEAN :
        LET fetched == get_shopping_list_items(remote, ok)
        IN \E success \in Answers(fetched) :
            /\ clear_iteration(fetched, success)
            /\ remote' = remote_delete_all(calls')

\* the answers of a service that reports every deletion as successful
AllSucceed(fetched) ==
    [n \in deletable(completed_items(fetched.items)) |-> TRUE]

\* the list regenerates: the service reports every deletion as successful,
\* yet the next fetch reports the same items again
clear_iteration_regenerating ==
    LET fetched == get_shopping_list_items(remote, TRUE)
    IN /\ clear_iteration(fetched, AllSucceed(fetched))
       /\ UNCHANGED remote

\* the while condition fails: the loop's else branch, then the report
clear_max_iterations ==
    /\ pc = "clear_loop" /\ ~loop_continues(iteration)
    /\ ret' = clear_summary(iteration, total_deleted_count, total_failed_items)
    /\ pc' = "done"
    /\ UNCHANGED <<tool, batch_vars, all_items, calls, remote, fetch_count,
                   clear_vars,
                   proxy_vars>>

InitClear == Constructed /\ remote \in RemoteLists

NextClear ==
    \/ clear_completed_items
    \/ clear_iteration_removing
    \/ clear_iteration_regenerating
    \/ clear_max_iterations

SpecClear == InitClear /\ [][NextClear]_vars

FairSpecClear == SpecClear /\ WF_vars(NextClear)

\* ---------------------------------------------------------------------
\* Invocations: a tool is called with one name or with a list of names
\* (isinstance(item_values, str) wraps the single name in a list)
\* ---------------------------------------------------------------------
call_add_item ==
    /\ pc = "idle"
    /\ \/ \E item_values \in RawNames : add_item(<<item_values>>)
       \/ \E item_values \in Batches : add_item(item_values)

call_delete_item ==
    /\ pc = "idle"
    /\ \/ \E item_values \in RawNames : delete_item(<<item_values>>)
       \/ \E item_values \in Batches : delete_item(item_values)

call_mark_complete ==
    /\ pc = "idle"
    /\ \/ \E item_values \in RawNames : mark_complete(<<item_values>>)
       \/ \E item_values \in Batches : mark_complete(item_values)

call_mark_incomplete ==
    /\ pc = "idle"
    /\ \/ \E item_values \in RawNames : mark_incomplete(<<item_values>>)
       \/ \E item_values \in Batches : mark_incomplete(item_values)

Next ==
    \/ get_list
    \/ get_completed_list
    \/ call_add_item
    \/ add_item_step
    \/ call_delete_item
    \/ delete_item_step
    \/ call_mark_complete
    \/ mark_complete_step
    \/ call_mark_incomplete
    \/ mark_incomplete_step

Spec == Init /\ [][Next]_vars

\* ---------------------------------------------------------------------
\* A session: one caller invokes the matching tools one after the other
\* against a list that no other client changes
\* ---------------------------------------------------------------------
SessionBatches == UNION {[1..n -> {S_milk, S_Eggs}] : n \in 1..MaxBatch}

\* the tool returns: its locals are gone, the list stays as it is
return_to_caller ==
    /\ pc = "done"
    /\ pc' = "idle"
    /\ tool' = "none"
    /\ values_to_process' = << >>
    /\ idx' = 0
    /\ all_items' = NoneItems
    /\ incomplete_items' = << >>
    /\ searchable_items' = << >>
    /\ results' = NoResults
    /\ ret' = NoRet
    /\ calls' = << >>
    /\ fetch_count' = 0
    /\ UNCHANGED <<remote, clear_vars,
                   proxy_vars>>

session_delete_item ==
    /\ pc = "idle"
    /\ \E item_values \in SessionBatches : \E ok \in BOOLEAN :
          delete_item_fetching(item_values, remote, ok)

session_mark_complete ==
    /\ pc = "idle"
    /\ \E item_values \in SessionBatches : \E ok \in BOOLEAN :
          mark_complete_fetching(item_values, remote, ok)

session_mark_incomplete ==
    /\ pc = "idle"
    /\ \E item_values \in SessionBatches : \E ok \in BOOLEAN :
          mark_incomplete_fetching(item_values, remote, ok)

InitSession == Constructed /\ remote \in RemoteLists

NextSession ==
    \/ session_delete_item
    \/ delete_item_step
    \/ session_mark_complete
    \/ mark_complete_step
    \/ session_mark_incomplete
    \/ mark_incomplete_step
    \/ return_to_caller

SpecSession == InitSession /\ [][NextSession]_vars

\* ---------------------------------------------------------------------
\* Proxy tools (src/src/mcp/mcp_server.py): each name of the batch is
\* forwarded to the backend server in a request of its own
\* ---------------------------------------------------------------------
\* a name that is not a str
PyNone == <<"None">>

ProxyNames == RawNames \cup {PyNone}

ProxyBatches == UNION {[1..n -> ProxyNames] : n \in 0..MaxBatch}

ProxyTools == {"proxy_add_item", "proxy_delete_item", "mark_item_completed",
               "mark_item_incomplete"}

\* what make_api_request returns: a dict with a message, a dict with
\* neither message nor error, or a dict with an error
Responses == {"message", "empty", "error"}

\* isinstance(name, str)
is_str(name) == name # PyNone

\* a test that lets a blank string through
invalid_name_not_str_only(name) == ~is_str(name)

\* not isinstance(name, str) or not name.strip()
invalid_name(name) == ~is_str(name) \/ strip(name) = << >>

\* success = "error" not in response
request_succeeded(response) == response # "error"

\* response.get("message", response.get("error", "Unknown result"))
response_message(response) ==
    CASE response = "message" -> "backend message"
      [] response = "error" -> "backend error"
      [] OTHER -> "Unknown result"

ProxyRequest(op, k, name, ok) ==
    [op |-> op, k |-> k, pos |-> 0, id |-> NoId, value |-> name,
     completed |-> FALSE, ok |-> ok]

InvalidEntry(name) ==
    [item |-> name, success |-> FALSE,
     message |-> "Invalid item name provided."]

RequestEntry(name, response) ==
    [item |-> strip(name), success |-> request_succeeded(response),
     message |-> response_message(response)]

\* an overall result that only reflects the last request
after_request_last(flag, success) == success

\* if not success: all_succeeded = False
after_request(flag, success) == IF ~success THEN FALSE ELSE flag

\* the summary message of the returned dict
summary_message(item_names, details, flag) ==
    IF Len(item_names) = 1
    THEN [form |-> "single", message |-> details[1].message,
          success_count |-> 0, fail_count |-> 0]
    ELSE LET success_count ==
                 Cardinality({k \in 1..Len(details) : details[k].success})
             fail_count == Len(details) - success_count
         IN [form |-> IF flag THEN "all"
                      ELSE IF success_count > 0 THEN "some" ELSE "none",
             message |-> "",
             success_count |-> success_count, fail_count |-> fail_count]

\* {"success": all_succeeded, "message": summary_message, "details": results}
proxy_return(item_names, details, flag) ==
    [kind |-> "dict", text |-> summary_message(item_names, details, flag),
     lines |-> details, success |-> flag]

\* the head of a proxy tool, up to its for loop
proxy_call(t, item_names) ==
    /\ pc = "idle"
    /\ tool' = t
    /\ values_to_process' = item_names
    /\ results' = << >>
    /\ all_succeeded' = TRUE
    /\ idx' = 1
    /\ IF item_names = << >>
       THEN ret' = proxy_return(item_names, << >>, TRUE) /\ pc' = "done"
       ELSE pc' = "loop" /\ UNCHANGED ret
    /\ UNCHANGED <<all_items, incomplete_items, searchable_items, calls,
                   remote, fetch_count, clear_vars>>

\* one pass of the for loop of a proxy tool, and the return after the
\* last name
proxy_step(t, op) ==
    /\ pc = "loop" /\ tool = t /\ idx <= Len(values_to_process)
    /\ LET name == values_to_process[idx]
       IN IF invalid_name(name)
          THEN /\ results' = Append(results, InvalidEntry(name))
               /\ all_succeeded' = FALSE
               /\ UNCHANGED calls
          ELSE \E response \in Responses :
               /\ calls' = Append(calls,
                      ProxyRequest(op, idx, strip(name),
                                   request_succeeded(response)))
               /\ results' = Append(results, RequestEntry(name, response))
               /\ all_succeeded' =
                      after_request(all_succeeded, request_succeeded(response))
    /\ idx' = idx + 1
    /\ IF idx' > Len(values_to_process)
       THEN /\ ret' = proxy_return(values_to_process, results', all_succeeded')
            /\ pc' = "done"
       ELSE UNCHANGED <<pc, ret>>
    /\ UNCHANGED <<tool, values_to_process, all_items, incomplete_items,
                   searchable_items, remote, fetch_count, clear_vars>>

\* item_names = [item_name] if isinstance(item_name, str) else item_name
proxy_add_item ==
    \/ \E item_name \in RawNames : proxy_call("proxy_add_item", <<item_name>>)
    \/ \E item_name \in ProxyBatches : proxy_call("proxy_add_item", item_name)

proxy_add_item_step == proxy_step("proxy_add_item", "POST /items")

proxy_delete_item ==
    \/ \E item_name \in RawNames : proxy_call("proxy_delete_item", <<item_name>>)
    \/ \E item_name \in ProxyBatches : proxy_call("proxy_delete_item", item_name)

proxy_delete_item_step == proxy_step("proxy_delete_item", "DELETE /items")

mark_item_completed ==
    \/ \E item_name \in RawNames : proxy_call("mark_item_completed", <<item_name>>)
    \/ \E item_name \in ProxyBatches : proxy_call("mark_item_completed", item_name)

mark_item_completed_step ==
    proxy_step("mark_item_completed", "PUT /items/mark_completed")

mark_item_incomplete ==
    \/ \E item_name \in RawNames : proxy_call("mark_item_incomplete", <<item_name>>)
    \/ \E item_name \in ProxyBatches : proxy_call("mark_item_incomplete", item_name)

mark_item_incomplete_step ==
    proxy_step("mark_item_incomplete", "PUT /items/mark_incomplete")

NextProxy ==
    \/ proxy_add_item
    \/ proxy_add_item_step
    \/ proxy_delete_item
    \/ proxy_delete_item_step
    \/ mark_item_completed
    \/ mark_item_completed_step
    \/ mark_item_incomplete
    \/ mark_item_incomplete_step

SpecProxy == Init /\ [][NextProxy]_vars

\* =====================================================================
\* Properties
\* =====================================================================
BatchTools == {"add_item", "delete_item", "mark_complete", "mark_incomplete"}

MatchTools == {"delete_item", "mark_complete", "mark_incomplete"}

\* the candidate pool of the running tool
Pool == IF tool = "mark_incomplete" THEN searchable_items ELSE incomplete_items

InBatch == pc \in {"loop", "done"} /\ tool \in BatchTools

\* a name of the batch is about to be processed
AtName == pc = "loop" /\ tool \in BatchTools /\ idx <= Len(values_to_process)

Blank(v) == strip(v) = << >>

SameName(v, w) == lower(strip(v)) = lower(strip(w))

Occurrences(seq, x) == Cardinality({k \in 1..Len(seq) : seq[k] = x})

RECURSIVE BucketOccurrences(_, _)
BucketOccurrences(B, x) ==
    IF B = {} THEN 0
    ELSE LET b == CHOOSE c \in B : TRUE
         IN Occurrences(results[b], x) + BucketOccurrences(B \ {b}, x)

RECURSIVE BucketEntries(_)
BucketEntries(B) ==
    IF B = {} THEN 0
    ELSE LET b == CHOOSE c \in B : TRUE
         IN Len(results[b]) + BucketEntries(B \ {b})

\* occurrences of the trimmed name x among the first n names of the batch
InputOccurrences(x, n) ==
    Cardinality({k \in 1..n : strip(values_to_process[k]) = x})

IsMutate(c) == c.op \in {"add", "delete", "update"}

MutateCalls == {n \in 1..Len(calls) : IsMutate(calls[n])}

FetchFailed == \E n \in 1..Len(calls) : calls[n].op = "fetch" /\ ~calls[n].ok

\* ---------------------------------------------------------------------
\* C1 (as stated): for add_item, delete_item, mark_complete and
\* mark_incomplete, once the tool has returned, every name occurrence of
\* the batch that is non-empty after trimming is recorded in exactly one
\* outcome bucket.
C1_EveryNameInOneBucket ==
    (pc = "done" /\ tool \in BatchTools) =>
        \A k \in 1..Len(values_to_process) :
            ~Blank(values_to_process[k]) =>
                BucketOccurrences(DOMAIN results, strip(values_to_process[k]))
                    = InputOccurrences(strip(values_to_process[k]),
                                       Len(values_to_process))

\* C1 (amended): in every invocation of a batch tool that has not returned
\* an error string, every name occurrence processed so far that is
\* non-empty after trimming is recorded in exactly one outcome bucket, and
\* the buckets hold nothing else.
C1_EveryNameInOneBucketUnlessError ==
    (InBatch /\ ret.kind # "error") =>
        /\ \A k \in 1..(idx - 1) :
              BucketOccurrences(DOMAIN results, strip(values_to_process[k]))
                  = IF Blank(values_to_process[k]) THEN 0
                    ELSE InputOccurrences(strip(values_to_process[k]), idx - 1)
        /\ BucketEntries(DOMAIN results)
              = Cardinality({k \in 1..(idx - 1) : ~Blank(values_to_process[k])})

C1_Witness ==
    /\ pc = "done" /\ tool = "mark_incomplete" /\ ret.kind = "summary"
    /\ values_to_process = <<S_Milk_padded, S_milk>>
    /\ results["unmarked"] = <<S_Milk>>
    /\ results["already_incomplete"] = <<S_milk>>

\* ---------------------------------------------------------------------
\* the name at position b is the second occurrence of its normalized name
\* and the mutation issued for the first occurrence succeeded
SecondAfterSuccess(b) ==
    /\ ~Blank(values_to_process[b])
    /\ \E a \in 1..(b - 1) :
        /\ SameName(values_to_process[a], values_to_process[b])
        /\ \A j \in 1..(b - 1) :
              j # a => ~SameName(values_to_process[j], values_to_process[b])
        /\ \E n \in MutateCalls : calls[n].k = a /\ calls[n].ok

\* the record mutated for the first occurrence of the name at position b
FirstMutated(b) ==
    CHOOSE n \in MutateCalls :
        calls[n].ok /\ calls[n].k < b
        /\ SameName(values_to_process[calls[n].k], values_to_process[b])

C2_NoSecondMutation ==
    (InBatch /\ tool \in MatchTools) =>
        \A m \in MutateCalls :
            calls[m].ok =>
                /\ \A n \in MutateCalls : n > m => calls[n].pos # calls[m].pos
                /\ tool \in {"delete_item", "mark_complete"} =>
                      \A k \in 1..Len(Pool) : Pool[k].pos # calls[m].pos
                /\ tool = "mark_incomplete" =>
                      \E k \in 1..Len(Pool) :
                          Pool[k].pos = calls[m].pos /\ ~Pool[k].completed

\* no other incomplete item of the snapshot bears the name at position b
NoOtherIncomplete(b) ==
    \A k \in 1..Len(all_items.items) :
        (/\ ~all_items.items[k].completed
         /\ SameName(all_items.items[k].value, values_to_process[b]))
            => all_items.items[k].pos = calls[FirstMutated(b)].pos

C2_SecondOccurrenceStep ==
    (AtName /\ tool \in MatchTools /\ SecondAfterSuccess(idx)) =>
        /\ (tool \in {"delete_item", "mark_complete"} /\ NoOtherIncomplete(idx)) =>
              /\ calls' = calls
              /\ results'["not_found"] =
                     Append(results["not_found"], strip(values_to_process[idx]))
        /\ tool = "mark_incomplete" =>
              /\ calls' = calls
              /\ results'["already_incomplete"] =
                     Append(results["already_incomplete"],
                            strip(values_to_process[idx]))

DeleteCalls == {n \in 1..Len(calls) : calls[n].op = "delete"}

\* C3: delete_item given "milk" and " Milk " (in either order), against a
\* list whose only incomplete item of that name is "Milk" and whose delete
\* call succeeds, issues exactly one delete call; the first name lands in
\* deleted and the second in not_found.
C3_MilkDeletedOnce ==
    (/\ pc = "done" /\ tool = "delete_item"
     /\ values_to_process \in {<<S_milk, S_Milk_padded>>,
                               <<S_Milk_padded, S_milk>>}
     /\ ~all_items.is_none
     /\ Cardinality({k \in 1..Len(all_items.items) :
                        /\ all_items.items[k].value = S_Milk
                        /\ ~all_items.items[k].completed}) = 1
     /\ DeleteCalls # {}
     /\ \A n \in DeleteCalls : calls[n].ok) =>
        /\ Cardinality(DeleteCalls) = 1
        /\ results["deleted"] =
               <<IF values_to_process[1] = S_milk THEN S_milk ELSE S_Milk>>
        /\ results["not_found"] =
               <<IF values_to_process[2] = S_milk THEN S_milk ELSE S_Milk>>
        /\ results["missing_id"] = << >>
        /\ results["failed"] = << >>

C3_Witness ==
    /\ pc = "done" /\ tool = "delete_item"
    /\ values_to_process = <<S_milk, S_Milk_padded>>
    /\ Len(all_items.items) = 1
    /\ all_items.items[1].value = S_Milk
    /\ results["deleted"] = <<S_milk>>
    /\ results["not_found"] = <<S_Milk>>
    /\ Cardinality(DeleteCalls) = 1

\* ---------------------------------------------------------------------
C4_Bounded ==
    tool = "clear_completed_items" =>
        /\ iteration <= 10
        /\ fetch_count <= 10
        /\ total_deleted_count <= observed_completed
        /\ (pc = "done" /\ ret.kind = "clear_summary") =>
              ret.lines[2].names[1] <= observed_completed

\* every pass of the loop returns or uses up one of the iterations
C4_Progress ==
    pc = "clear_loop" =>
        \/ pc' = "done"
        \/ pc' = "clear_loop" /\ iteration' = iteration + 1 /\ iteration' <= 10

\* C4: clear_completed_items returns, after at most 10 iterations and at
\* most 10 fetch calls, and the deleted count it reports never exceeds the
\* number of completed items seen in the snapshots of its iterations.
C4_ClearTerminates ==
    /\ [](C4_Bounded)
    /\ [][C4_Progress]_vars
    /\ <>(pc = "done")

C4_Witness ==
    /\ pc = "done" /\ tool = "clear_completed_items"
    /\ ret.kind = "clear_summary"
    /\ iteration = 10 /\ fetch_count = 10
    /\ total_deleted_count = observed_completed
    /\ total_deleted_count >= 10

\* ---------------------------------------------------------------------
NoValidText ==
    [add_item |-> "Error: No valid item values provided to add.",
     delete_item |-> "Error: No valid item values provided for deletion.",
     mark_complete |-> "Error: No valid item values provided to mark complete.",
     mark_incomplete |-> "Error: No valid item values provided to mark incomplete."]

\* C5: a batch tool called with no name, or with names that are all empty
\* after trimming, returns its 'No valid item values' error and issues no
\* remote call.
C5_NoValidNamesNoCall ==
    (/\ pc # "idle" /\ tool \in BatchTools
     /\ \A k \in 1..Len(values_to_process) : Blank(values_to_process[k])) =>
        /\ pc = "done"
        /\ ret.kind = "error"
        /\ ret.text = NoValidText[tool]
        /\ calls = << >>
        /\ fetch_count = 0

C5_Witness ==
    /\ pc = "done" /\ tool = "mark_complete"
    /\ values_to_process = <<S_blank, S_blank>>
    /\ ret = ErrorRet("Error: No valid item values provided to mark complete.")
    /\ calls = << >>

\* ---------------------------------------------------------------------
\* C6: mark_complete called with one name whose matching items of the
\* fetched list are all completed records the name in already_complete
\* and issues no update call.
C6_AlreadyComplete ==
    (/\ pc = "done" /\ tool = "mark_complete"
     /\ Len(values_to_process) = 1 /\ ~Blank(values_to_process[1])
     /\ ~all_items.is_none
     /\ \E k \in 1..Len(all_items.items) :
            SameName(all_items.items[k].value, values_to_process[1])
     /\ \A k \in 1..Len(all_items.items) :
            SameName(all_items.items[k].value, values_to_process[1])
                => all_items.items[k].completed) =>
        /\ results["already_complete"] = <<strip(values_to_process[1])>>
        /\ MutateCalls = {}

\* ---------------------------------------------------------------------
\* C7: in delete_item, mark_complete and mark_incomplete a failed fetch
\* makes the tool return an error string at once: no mutate call is
\* issued and no name is put in a bucket.
C7_FetchFailureAborts ==
    (tool \in MatchTools /\ FetchFailed) =>
        /\ pc = "done"
        /\ ret.kind = "error"
        /\ MutateCalls = {}
        /\ \A b \in DOMAIN results : results[b] = << >>

\* ---------------------------------------------------------------------
\* positions of the pool whose normalized value equals the name v
Matching(v) ==
    {k \in 1..Len(Pool) : lower(strip(Pool[k].value)) = lower(strip(v))}

IsFirstMatching(k, v) == k \in Matching(v) /\ \A j \in Matching(v) : k <= j

C8_FirstMatchStep ==
    (AtName /\ tool \in MatchTools /\ ~Blank(values_to_process[idx])) =>
        LET v == values_to_process[idx]
            grew(b) == results'[b] = Append(results[b], strip(v))
        IN IF Matching(v) = {}
           THEN grew("not_found") /\ calls' = calls
           ELSE \E k \in 1..Len(Pool) :
                /\ IsFirstMatching(k, v)
                /\ results'["not_found"] = results["not_found"]
                /\ \/ /\ calls' = calls
                      /\ \/ tool = "delete_item" /\ Pool[k].id = NoId
                            /\ grew("missing_id")
                         \/ tool = "mark_incomplete" /\ ~Pool[k].completed
                            /\ grew("already_incomplete")
                   \/ /\ Len(calls') = Len(calls) + 1
                      /\ calls'[Len(calls')].pos = Pool[k].pos
                      /\ calls'[Len(calls')].value = Pool[k].value
                      /\ calls'[Len(calls')].id = Pool[k].id
                      /\ calls'[Len(calls')].k = idx

\* C8: the item matched for a name is the first item of the current pool
\* whose trimmed lower-cased value equals the trimmed lower-cased name; a
\* name without such an item is recorded in not_found and no mutate call
\* is issued for it.
C8_FirstMatchWins == [][C8_FirstMatchStep]_vars

C8_Witness ==
    /\ pc = "done" /\ tool = "delete_item"
    /\ values_to_process = <<S_milk>>
    /\ Len(all_items.items) = 2
    /\ all_items.items[1].value = S_Milk /\ all_items.items[2].value = S_Milk
    /\ ~all_items.items[1].completed /\ ~all_items.items[2].completed
    /\ Len(calls) = 2
    /\ calls[2].op = "delete" /\ calls[2].pos = 1 /\ calls[2].ok
    /\ results["deleted"] = <<S_milk>>

\* ---------------------------------------------------------------------
\* the step appends the given form of the current name to one bucket and
\* leaves the other buckets as they are
AppendsToOneBucket(form) ==
    \E b \in DOMAIN results :
        results' = [results EXCEPT ![b] = Append(@, form)]

\* C9 (as stated): each bucket holds the trimmed and lower-cased form of
\* the names that fell into it, in the order of the batch: every name
\* processed is appended in that form to the end of one bucket.
C9_BucketsHoldNormalized ==
    [][(AtName /\ ~Blank(values_to_process[idx])) =>
        AppendsToOneBucket(lower(strip(values_to_process[idx])))]_vars

\* C9 (amended): each bucket holds the trimmed form of the names that
\* fell into it, letter case kept as submitted, in the order of the batch:
\* every name processed is appended in that form to the end of one bucket.
C9_BucketsHoldTrimmed ==
    [][(AtName /\ ~Blank(values_to_process[idx])) =>
        AppendsToOneBucket(strip(values_to_process[idx]))]_vars

C9_Witness ==
    /\ pc = "done" /\ tool = "add_item"
    /\ values_to_process = <<S_Milk_padded, S_Eggs>>
    /\ results["added"] = <<S_Milk, S_Eggs>>

\* ---------------------------------------------------------------------
C10_BlankStep ==
    (AtName /\ Blank(values_to_process[idx])) =>
        /\ results' = results
        /\ calls' = calls
        /\ fetch_count' = fetch_count
        /\ incomplete_items' = incomplete_items
        /\ searchable_items' = searchable_items
        /\ remote' = remote
        /\ idx' = idx + 1

C10_BlankNowhere ==
    InBatch =>
        /\ \A b \in DOMAIN results :
              \A k \in 1..Len(results[b]) : results[b][k] # << >>
        /\ (pc = "done" /\ ret.kind # "error") =>
              BucketEntries(DOMAIN results) =
                  Cardinality({k \in 1..Len(values_to_process) :
                                  values_to_process[k] # S_blank})

\* C10: in a batch that mixes valid names with names that are empty after
\* trimming, an empty name changes no bucket and causes no remote call,
\* and every other name of the batch is still processed.
C10_BlankNamesDropped == [](C10_BlankNowhere) /\ [][C10_BlankStep]_vars

C10_Witness ==
    /\ pc = "done" /\ tool = "add_item"
    /\ values_to_process = <<S_blank, S_milk>>
    /\ results["added"] = <<S_milk>>
    /\ Len(calls) = 1
    /\ calls[1].value = S_milk

\* ---------------------------------------------------------------------
AddCalls == {n \in 1..Len(calls) : calls[n].op = "add"}

\* the calls issued so far are the add calls of the non-blank names
\* processed so far, in input order, and nothing was fetched
C11_OneAddPerName ==
    (InBatch /\ tool = "add_item" /\ ret.kind # "error") =>
        /\ fetch_count = 0
        /\ all_items = NoneItems
        /\ AddCalls = 1..Len(calls)
        /\ Len(calls) = Cardinality({k \in 1..(idx - 1) :
                                        ~Blank(values_to_process[k])})
        /\ \A n \in 1..Len(calls) :
              /\ ~Blank(values_to_process[calls[n].k])
              /\ calls[n].value = strip(values_to_process[calls[n].k])
              /\ \A m \in 1..(n - 1) : calls[m].k < calls[n].k
        /\ \A n \in 1..Len(calls) :
              LET x == calls[n].value
                  sent(ok) == Cardinality({m \in 1..Len(calls) :
                                  calls[m].value = x /\ calls[m].ok = ok})
              IN /\ Occurrences(results["added"], x) = sent(TRUE)
                 /\ Occurrences(results["failed"], x) = sent(FALSE)
        /\ pc = "done" => idx = Len(values_to_process) + 1

\* a non-blank name causes one add call whatever the list holds and
\* whatever happened to the names before it
C11_AddStep ==
    (AtName /\ tool = "add_item" /\ ~Blank(values_to_process[idx])) =>
        LET x == strip(values_to_process[idx])
        IN /\ Len(calls') = Len(calls) + 1
           /\ SubSeq(calls', 1, Len(calls)) = calls
           /\ calls'[Len(calls')].op = "add"
           /\ calls'[Len(calls')].k = idx
           /\ calls'[Len(calls')].value = x
           /\ IF calls'[Len(calls')].ok
              THEN /\ results' = [results EXCEPT !["added"] = Append(@, x)]
                   /\ Len(remote') = Len(remote) + 1
                   /\ remote'[Len(remote')].value = x
                   /\ SubSeq(remote', 1, Len(remote)) = remote
              ELSE /\ results' = [results EXCEPT !["failed"] = Append(@, x)]
                   /\ remote' = remote
           /\ idx' = idx + 1

\* C11: add_item issues exactly one add call per non-empty name, in input
\* order, without fetching the list and without checking the name against
\* the items the list holds or the names already added; the name lands in
\* added iff its call succeeded and in failed otherwise, and a failure
\* does not stop the names after it.
C11_AddEveryName == [](C11_OneAddPerName) /\ [][C11_AddStep]_vars

C11_Witness ==
    /\ pc = "done" /\ tool = "add_item"
    /\ values_to_process = <<S_milk, S_milk>>
    /\ Len(calls) = 2 /\ calls[1].ok /\ calls[2].ok
    /\ results["added"] = <<S_milk, S_milk>>
    /\ Len(remote) = 2
    /\ remote[1].value = S_milk /\ remote[2].value = S_milk

\* ---------------------------------------------------------------------
\* C12: in delete_item and mark_complete, when the item matched for a name
\* has no id, the name is recorded in missing_id and no mutate call is
\* issued for it.
C12_MissingIdNoCall ==
    [][(/\ AtName /\ tool \in {"delete_item", "mark_complete"}
        /\ ~Blank(values_to_process[idx])
        /\ \E k \in 1..Len(Pool) :
              IsFirstMatching(k, values_to_process[idx]) /\ Pool[k].id = NoId) =>
        /\ calls' = calls
        /\ "missing_id" \in DOMAIN results
        /\ results' = [results EXCEPT !["missing_id"] =
                           Append(@, strip(values_to_process[idx]))]]_vars

\* ---------------------------------------------------------------------
\* C13: in delete_item, mark_complete and mark_incomplete, once a mutate
\* call for a record has failed, no later mutate call of the same batch
\* targets that record, even when its name occurs again in the batch.
C13_NoRetryAfterFailure ==
    (InBatch /\ tool \in MatchTools) =>
        \A m \in MutateCalls :
            ~calls[m].ok =>
                \A n \in MutateCalls : n > m => calls[n].pos # calls[m].pos

\* ---------------------------------------------------------------------
InClear == tool = "clear_completed_items"

\* the step is a pass of the loop whose fetch fails
FetchFailsInStep ==
    /\ pc = "clear_loop" /\ iteration' = iteration + 1
    /\ calls'[1] = FetchCall(FALSE)

C14_FetchFailStep ==
    FetchFailsInStep =>
        /\ pc' = "done"
        /\ ret'.kind = "error"
        /\ ret'.text = "Error: Could not retrieve shopping list items during clearing process."
        /\ calls' = <<FetchCall(FALSE)>>
        /\ remote' = remote
        /\ total_deleted_count' = total_deleted_count
        /\ total_failed_items' = total_failed_items
        /\ IF iteration >= 1
           THEN /\ total_deleted_count > 0 \/ total_failed_items # << >>
                /\ ret'.lines =
                      <<[label |-> "So far: Deleted",
                         names |-> <<total_deleted_count>>],
                        [label |-> "Failures",
                         names |-> <<Len(total_failed_items)>>]>>
           ELSE ret'.lines = << >>

\* nothing happens after the return
C14_DoneIsFinal == (InClear /\ pc = "done") => UNCHANGED vars

\* C14: when the fetch of an iteration of clear_completed_items fails, the
\* invocation returns an error string at once, issues no further remote
\* call, and the error reports the deleted count and the failure count
\* accumulated in the earlier iterations.
C14_ClearFetchFailure == [][C14_FetchFailStep /\ C14_DoneIsFinal]_vars

C14_Witness ==
    /\ InClear /\ pc = "done" /\ ret.kind = "error"
    /\ iteration = 3
    /\ total_deleted_count = 2 /\ Len(total_failed_items) = 1
    /\ ret.lines[1].names = <<2>> /\ ret.lines[2].names = <<1>>

\* ---------------------------------------------------------------------
\* the positions of the list held by the service that are completed
RemoteCompleted == {k \in 1..Len(remote) : remote[k].completed}

\* the step is a pass of the loop whose fetch succeeds
FetchSucceedsInStep ==
    /\ pc = "clear_loop" /\ iteration' = iteration + 1
    /\ calls'[1] = FetchCall(TRUE)

C15_PassStep ==
    FetchSucceedsInStep =>
        /\ all_items'.items = get_shopping_list_items(remote, TRUE).items
        /\ IF RemoteCompleted = {}
           THEN /\ calls' = <<FetchCall(TRUE)>>
                /\ pc' = "done"
                /\ ret'.kind = "clear_summary"
                /\ remote' = remote
           ELSE /\ pc' = "clear_loop"
                /\ ret' = ret
                /\ \A k \in RemoteCompleted :
                      remote[k].id # NoId =>
                          \E n \in 2..Len(calls') :
                              /\ calls'[n].op = "delete"
                              /\ calls'[n].pos = k
                              /\ calls'[n].id = remote[k].id
                /\ \A n \in 2..Len(calls') :
                      /\ calls'[n].op = "delete"
                      /\ calls'[n].pos \in RemoteCompleted

\* a summary returned before the cap follows a snapshot without completed
\* items
C15_EarlySummary ==
    (/\ InClear /\ pc = "done" /\ ret.kind = "clear_summary"
     /\ ret.lines[1].names[1] < 10) =>
        /\ ~all_items.is_none
        /\ \A k \in 1..Len(all_items.items) : ~all_items.items[k].completed
        /\ calls = <<FetchCall(TRUE)>>
        /\ ret.lines[1].names[1] = iteration

\* C15: clear_completed_items repeats snapshot-then-delete until a
\* snapshot holds no completed item or the cap is hit: an iteration whose
\* snapshot has no completed item issues no delete call and ends the loop,
\* any other iteration calls delete for the completed items that have an
\* id and goes on, and a summary returned after fewer than 10 iterations
\* follows a snapshot without completed items.
C15_LoopUntilNoneCompleted == [](C15_EarlySummary) /\ [][C15_PassStep]_vars

C15_Witness ==
    /\ InClear /\ pc = "done" /\ ret.kind = "clear_summary"
    /\ iteration = 3 /\ total_deleted_count = 2
    /\ Len(all_items.items) = 0
    /\ calls = <<FetchCall(TRUE)>>

\* ---------------------------------------------------------------------
\* the step leaves the loop because the cap was reached while the last
\* snapshot still held completed items
CapReachedInStep ==
    /\ pc = "clear_loop" /\ pc' = "done" /\ iteration' = iteration
    /\ \E k \in 1..Len(all_items.items) : all_items.items[k].completed

\* C16: when clear_completed_items stops at the cap of 10 iterations with
\* completed items left, the value returned says so: it is not the value
\* returned, for the same iteration count, deleted count and failure
\* list, by a run whose last snapshot held no completed item.
C16_CapReported ==
    [][CapReachedInStep =>
        /\ ret'.kind # "error"
        /\ ret' # clear_summary(iteration, total_deleted_count,
                                total_failed_items)]_vars

\* ---------------------------------------------------------------------
HasMissingIdSuffix(e) ==
    /\ Len(e) >= Len(S_missing_id)
    /\ SubSeq(e, Len(e) - Len(S_missing_id) + 1, Len(e)) = S_missing_id

\* the item value an entry of the failure list stands for
EntryValue(e) ==
    IF HasMissingIdSuffix(e)
    THEN SubSeq(e, 1, Len(e) - Len(S_missing_id))
    ELSE e

\* the report is made of the iteration count, the deleted count and the
\* failure list
C17_ReportStatesTotals ==
    (InClear /\ pc = "done" /\ ret.kind = "clear_summary") =>
        /\ ret.lines[1] = [label |-> "iteration(s)", names |-> <<iteration>>]
        /\ ret.lines[2] = [label |-> "Total Deleted",
                           names |-> <<total_deleted_count>>]
        /\ IF total_failed_items = << >>
           THEN Len(ret.lines) = 2
           ELSE /\ Len(ret.lines) = 3
                /\ ret.lines[3] = [label |-> "Failures encountered for",
                                   names |-> total_failed_items]

EnteredInStep(e) ==
    \E i \in 1..Len(total_failed_items') : total_failed_items'[i] = e

\* every item that failed in the pass just made is in the failure list
C17_FailuresRecorded ==
    FetchSucceedsInStep =>
        /\ \A n \in 2..Len(calls') :
              ~calls'[n].ok => EnteredInStep(calls'[n].value)
        /\ \A k \in RemoteCompleted :
              remote[k].id = NoId =>
                  EnteredInStep(remote[k].value \o S_missing_id)
        /\ \A i \in 1..Len(total_failed_items) :
              total_failed_items'[i] = total_failed_items[i]

C17_NoEqualEntries ==
    /\ InClear =>
          \A i, j \in 1..Len(total_failed_items) :
              i # j => total_failed_items[i] # total_failed_items[j]
    /\ C17_ReportStatesTotals

SummaryOrder ==
    [add_item |-> <<"added", "failed">>,
     delete_item |-> <<"deleted", "not_found", "missing_id", "failed">>,
     mark_complete |-> <<"marked", "not_found", "already_complete", "failed">>,
     mark_incomplete |-> <<"unmarked", "not_found", "already_incomplete",
                          "failed">>]

SummaryLabels ==
    [add_item |-> <<"Added: ", "Failed to add: ">>,
     delete_item |-> <<"Deleted: ", "Not found (incomplete): ",
                       "Found but missing ID: ", "Failed to delete: ">>,
     mark_complete |-> <<"Marked complete: ", "Not found (incomplete): ",
                         "Already complete: ", "Failed to mark complete: ">>,
     mark_incomplete |-> <<"Marked incomplete: ", "Not found: ",
                           "Already incomplete: ",
                           "Failed to mark incomplete: ">>]

\* C18: the summary of a batch tool has one line per non-empty bucket and
\* no line for an empty one, the lines follow the fixed bucket order of
\* the tool, each line carries the label and the names of its bucket, and
\* with every bucket empty the output is the sentinel 'No actions
\* performed or items provided.'.
C18_SummaryInBucketOrder ==
    (pc = "done" /\ tool \in BatchTools /\ ret.kind # "error") =>
        LET order == SummaryOrder[tool]
            labels == SummaryLabels[tool]
            shown == {n \in 1..Len(order) : results[order[n]] # << >>}
            \* the bucket shown on line i
            bucket(i) == CHOOSE n \in shown :
                            Cardinality({m \in shown : m <= n}) = i
        IN /\ DOMAIN results = {order[n] : n \in 1..Len(order)}
           /\ Len(ret.lines) = Cardinality(shown)
           /\ \A i \in 1..Len(ret.lines) :
                 /\ ret.lines[i].label = labels[bucket(i)]
                 /\ ret.lines[i].names = results[order[bucket(i)]]
           /\ IF shown = {}
              THEN /\ ret.kind = "sentinel"
                   /\ ret.text = "No actions performed or items provided."
              ELSE ret.kind = "summary"

C18_Witness ==
    /\ pc = "done" /\ tool = "delete_item"
    /\ values_to_process = <<S_Eggs, S_milk>>
    /\ results["not_found"] = <<S_Eggs>> /\ results["deleted"] = <<S_milk>>
    /\ ret.kind = "summary"
    /\ ret.lines = <<[label |-> "Deleted: ", names |-> <<S_milk>>],
                     [label |-> "Not found (incomplete): ",
                      names |-> <<S_Eggs>>]>>

\* ---------------------------------------------------------------------
\* the list the service holds, as a fetch reports it
Snapshot ==
    [k \in 1..Len(remote) |->
        [pos |-> k, id |-> remote[k].id, value |-> remote[k].value,
         completed |-> remote[k].completed]]

\* an invocation with a valid name has fetched once, before any mutation
C19_OneFetchFirst ==
    (/\ InBatch /\ tool \in MatchTools
     /\ \E k \in 1..Len(values_to_process) : ~Blank(values_to_process[k])) =>
        /\ fetch_count = 1
        /\ Len(calls) >= 1
        /\ calls[1].op = "fetch"
        /\ \A n \in 2..Len(calls) : IsMutate(calls[n])
        /\ all_items.is_none = ~calls[1].ok

\* the invocation starts from what the service holds now, whatever an
\* earlier invocation fetched
C19_CallStep ==
    (pc = "idle" /\ pc' # "idle") =>
        /\ tool' \in MatchTools
        /\ fetch_count' = 1
        /\ IF calls'[1].ok
           THEN /\ all_items' = [is_none |-> FALSE, items |-> Snapshot]
                /\ tool' = "mark_incomplete" => searchable_items' = Snapshot
                /\ tool' # "mark_incomplete" =>
                      incomplete_items' =
                          SelectSeq(Snapshot, LAMBDA item : ~item.completed)
           ELSE /\ all_items' = NoneItems
                /\ incomplete_items' = << >>
                /\ searchable_items' = << >>

\* the names of the batch are processed on the snapshot of the call
C19_LoopStep ==
    AtName =>
        /\ all_items' = all_items
        /\ fetch_count' = fetch_count
        /\ \A n \in 1..Len(calls') : n > Len(calls) => IsMutate(calls'[n])
        /\ \A k \in 1..Len(Pool') :
              \E j \in 1..Len(all_items.items) :
                  /\ all_items.items[j].pos = Pool'[k].pos
                  /\ all_items.items[j].id = Pool'[k].id
                  /\ all_items.items[j].value = Pool'[k].value

\* C19: an invocation of delete_item, mark_complete or mark_incomplete
\* with a valid name issues exactly one fetch call, before every mutate
\* call; the names of the batch are matched against that snapshot, which
\* is not fetched again, and a later invocation fetches anew and works on
\* what the service holds then.
C19_OneSnapshotPerInvocation ==
    /\ [](C19_OneFetchFirst)
    /\ [][C19_CallStep /\ C19_LoopStep]_vars

C19_Witness ==
    /\ pc = "done" /\ tool = "mark_complete"
    /\ values_to_process = <<S_Eggs, S_milk>>
    /\ Len(all_items.items) = 1
    /\ all_items.items[1].id = 2
    /\ results["marked"] = <<S_Eggs>> /\ results["not_found"] = <<S_milk>>
    /\ Len(calls) = 2 /\ calls[1].op = "fetch" /\ calls[2].op = "update"

\* ---------------------------------------------------------------------
\* the values of the items of the snapshot whose completed flag is flag,
\* in snapshot order
RECURSIVE ValuesWhere(_, _)
ValuesWhere(items, flag) ==
    IF items = << >> THEN << >>
    ELSE IF Head(items).completed = flag
         THEN <<Head(items).value>> \o ValuesWhere(Tail(items), flag)
         ELSE ValuesWhere(Tail(items), flag)

\* C20: get_list returns the values of the items of the snapshot that are
\* not completed, in snapshot order, and get_completed_list those of the
\* completed ones; when there is none, or when the fetch fails, each
\* returns a list holding one message, never an empty list; neither tool
\* issues a mutate call.
C20_ListsReturnValues ==
    (pc = "done" /\ tool \in {"get_list", "get_completed_list"}) =>
        LET expected == ValuesWhere(all_items.items,
                                    tool = "get_completed_list")
        IN /\ Len(calls) = 1 /\ calls[1].op = "fetch"
           /\ fetch_count = 1
           /\ MutateCalls = {}
           /\ all_items.is_none = ~calls[1].ok
           /\ IF all_items.is_none
              THEN ret = [kind |-> "message",
                          text |-> "Error: Could not retrieve shopping list items.",
                          lines |-> << >>]
              ELSE /\ all_items.items = Snapshot
                   /\ IF expected = << >>
                      THEN /\ ret.kind = "message"
                           /\ ret.lines = << >>
                           /\ ret.text =
                                 IF tool = "get_list"
                                 THEN "Shopping list is empty or has no incomplete items."
                                 ELSE "No completed items found on the list."
                      ELSE /\ ret.kind = "values"
                           /\ Len(ret.lines) = 1
                           /\ ret.lines[1].names = expected

C20_Witness ==
    /\ pc = "done" /\ tool = "get_list"
    /\ Len(all_items.items) = 2
    /\ all_items.items[1].completed /\ ~all_items.items[2].completed
    /\ all_items.items[2].value = S_eggs_padded
    /\ ret.kind = "values"
    /\ ret.lines[1].names = <<S_eggs_padded>>

\* ---------------------------------------------------------------------
InProxy == tool \in ProxyTools /\ pc \in {"loop", "done"}

\* the names processed so far that are forwarded to the backend
Forwarded == {k \in 1..(idx - 1) :
                 /\ values_to_process[k] # PyNone
                 /\ ~Blank(values_to_process[k])}

C21_DetailsPerName ==
    InProxy =>
        /\ Len(results) = idx - 1
        /\ \A k \in 1..Len(results) :
              results[k].item = IF k \in Forwarded
                                THEN strip(values_to_process[k])
                                ELSE values_to_process[k]
        /\ {calls[n].k : n \in 1..Len(calls)} = Forwarded
        /\ \A m, n \in 1..Len(calls) : m < n => calls[m].k < calls[n].k
        /\ \A n \in 1..Len(calls) :
              /\ calls[n].value = strip(values_to_process[calls[n].k])
              /\ results[calls[n].k].success = calls[n].ok
        /\ \A k \in 1..Len(results) : k \notin Forwarded => ~results[k].success
        /\ all_succeeded = (\A k \in 1..Len(results) : results[k].success)
        /\ pc = "done" =>
              /\ idx = Len(values_to_process) + 1
              /\ ret.kind = "dict"
              /\ ret.lines = results
              /\ Len(ret.lines) = Len(values_to_process)
              /\ ret.success = (\A k \in 1..Len(ret.lines) : ret.lines[k].success)

\* a name is processed whatever happened to the names before it
C21_NameStep ==
    (tool \in ProxyTools /\ pc = "loop") =>
        /\ idx <= Len(values_to_process)
        /\ idx' = idx + 1
        /\ Len(results') = Len(results) + 1
        /\ SubSeq(results', 1, Len(results)) = results
        /\ (values_to_process[idx] # PyNone /\ ~Blank(values_to_process[idx]))
              => Len(calls') = Len(calls) + 1

\* C21: in the proxy tools add_item, delete_item, mark_item_completed and
\* mark_item_incomplete every name of the batch is processed whatever
\* failed before it, 'details' holds one entry per input name in input
\* order, and the overall 'success' is true iff every entry succeeded.
C21_ProxyDetails == [](C21_DetailsPerName) /\ [][C21_NameStep]_vars

C21_Witness ==
    /\ pc = "done" /\ tool = "proxy_delete_item"
    /\ values_to_process = <<S_milk, S_Eggs>>
    /\ Len(calls) = 2 /\ ~calls[1].ok /\ calls[2].ok
    /\ ~ret.lines[1].success /\ ret.lines[2].success
    /\ ret.lines[1].item = S_milk /\ ret.lines[2].item = S_Eggs
    /\ ~ret.success

\* ---------------------------------------------------------------------
\* the item of the snapshot a mutate call was issued for
SnapshotItem(c) == all_items.items[c.pos]

C22_IncompleteOnly ==
    (InBatch /\ tool \in {"delete_item", "mark_complete"}) =>
        \A n \in MutateCalls :
            /\ calls[n].op = IF tool = "delete_item" THEN "delete" ELSE "update"
            /\ calls[n].pos \in 1..Len(all_items.items)
            /\ SnapshotItem(calls[n]).id = calls[n].id
            /\ ~SnapshotItem(calls[n]).completed
            /\ tool = "mark_complete" => calls[n].completed

C22_UnmarkStep ==
    (AtName /\ tool = "mark_incomplete" /\ Len(calls') = Len(calls) + 1) =>
        LET c == calls'[Len(calls')]
        IN /\ c.op = "update" /\ ~c.completed
           /\ c.pos \in 1..Len(searchable_items)
           /\ searchable_items[c.pos].pos = c.pos
           /\ searchable_items[c.pos].id = c.id
           /\ searchable_items[c.pos].completed

\* C22: delete_item and mark_complete never issue a delete or
\* set-completion call for an item that was completed in the snapshot;
\* mark_incomplete issues a set-completion(false) call only for an item
\* that is completed in its local snapshot state.
C22_SearchedPool == [](C22_IncompleteOnly) /\ [][C22_UnmarkStep]_vars

C22_Witness ==
    /\ pc = "done" /\ tool = "delete_item"
    /\ Len(all_items.items) = 2
    /\ all_items.items[1].completed /\ ~all_items.items[2].completed
    /\ SameName(all_items.items[1].value, all_items.items[2].value)
    /\ \E n \in MutateCalls : calls[n].pos = 2 /\ calls[n].ok

\* ---------------------------------------------------------------------
\* the bucket a tool records its successful mutations in
SuccessBucket ==
    CASE tool = "add_item" -> "added"
      [] tool = "delete_item" -> "deleted"
      [] tool = "mark_complete" -> "marked"
      [] OTHER -> "unmarked"

\* the names processed so far that are not blank
NonEmptyNames == {k \in 1..Len(values_to_process) :
                     k < idx /\ ~Blank(values_to_process[k])}

\* C23: in every batch tool at most one mutate call is issued per
\* non-empty input name, so the mutate calls of an invocation never
\* outnumber the non-empty input names, and their number equals the
\* combined size of the success bucket and the failed bucket.
C23_OneCallPerName ==
    (InBatch /\ "failed" \in DOMAIN results) =>
        /\ \A n \in MutateCalls : calls[n].k \in NonEmptyNames
        /\ \A m, n \in MutateCalls : calls[m].k = calls[n].k => m = n
        /\ Cardinality(MutateCalls) <= Cardinality(NonEmptyNames)
        /\ Cardinality(MutateCalls) =
               Len(results[SuccessBucket]) + Len(results["failed"])
        /\ Cardinality({n \in MutateCalls : calls[n].ok}) =
               Len(results[SuccessBucket])

C23_Witness ==
    /\ pc = "done" /\ tool = "mark_complete"
    /\ Cardinality(MutateCalls) = 2
    /\ Len(results["marked"]) = 1 /\ Len(results["failed"]) = 1

\* ---------------------------------------------------------------------
\* the delete calls of a call log whose answer was a failure
FailedDeletes(log) == {n \in 1..Len(log) : log[n].op = "delete" /\ ~log[n].ok}

\* C24: in clear_completed_items an item whose delete-one call failed is
\* not attempted again in a later iteration of the same invocation: no
\* delete call of an iteration is for an item whose delete call failed
\* in the iteration before.
C24_NoRetryInLaterIteration ==
    [][(InClear /\ pc = "clear_loop" /\ iteration' = iteration + 1) =>
          \A m \in FailedDeletes(calls) :
              \A n \in 1..Len(calls') :
                  calls'[n].op = "delete" => calls'[n].id # calls[m].id]_vars

\* ---------------------------------------------------------------------
\* the completed items of a list that have an id, in list order
CompletedWithId(items) ==
    SelectSeq(items, LAMBDA r : r.completed /\ r.id # NoId)

\* a pass of the loop that found completed items
DeletingPass == InClear /\ pc = "clear_loop" /\ pc' = "clear_loop"

C25_PassStep ==
    DeletingPass =>
        LET expected == CompletedWithId(all_items'.items)
            attempts == Tail(calls')
        IN /\ calls'[1] = FetchCall(TRUE)
           /\ Len(attempts) = Len(expected)
           /\ \A n \in 1..Len(attempts) :
                 /\ attempts[n].op = "delete"
                 /\ attempts[n].id = expected[n].id
                 /\ attempts[n].value = expected[n].value
           /\ total_deleted_count' = total_deleted_count +
                 Cardinality({n \in 1..Len(attempts) : attempts[n].ok})

\* C25: in each iteration of clear_completed_items whose snapshot holds
\* completed items, delete-one is attempted exactly once for every
\* completed item of that snapshot that has an id, in snapshot order; a
\* failed deletion does not stop the attempts for the remaining items,
\* and the deleted count grows by the number of delete calls that
\* succeeded.
C25_EveryCompletedAttempted == [][C25_PassStep]_vars

C25_Witness ==
    /\ InClear /\ pc = "clear_loop"
    /\ Len(calls) = 3
    /\ calls[2].op = "delete" /\ ~calls[2].ok
    /\ calls[3].op = "delete" /\ calls[3].ok
    /\ calls[2].pos < calls[3].pos
    /\ total_deleted_count = 1

\* ---------------------------------------------------------------------
\* the step records no successful mutation
NoSuccessInStep == results'[SuccessBucket] = results[SuccessBucket]

C26_PoolStep ==
    (AtName /\ tool \in MatchTools) =>
        /\ NoSuccessInStep => Pool' = Pool
        /\ Pool' # Pool => /\ Len(calls') = Len(calls) + 1
                            /\ calls'[Len(calls')].ok

\* C26: in delete_item, mark_complete and mark_incomplete the candidate
\* pool changes only on a successful mutation: after a name is classified
\* as not_found, missing_id, already_complete, already_incomplete or
\* failed, the pool has the members, order and completion flags it had
\* before that name was processed.
C26_PoolChangesOnSuccessOnly == [][C26_PoolStep]_vars

C26_Witness ==
    /\ pc = "done" /\ tool = "mark_complete" /\ ret.kind # "error"
    /\ Len(results["failed"]) = 1 /\ Len(results["not_found"]) = 1
    /\ Len(incomplete_items) = 2
    /\ \A k \in 1..2 : incomplete_items[k] = all_items.items[k]

\* ---------------------------------------------------------------------
\* the incomplete items of the snapshot whose normalized value is that of v
IncompleteMatches(v) ==
    {j \in 1..Len(all_items.items) :
        /\ ~all_items.items[j].completed
        /\ SameName(all_items.items[j].value, v)}

Min(a, b) == IF a <= b THEN a ELSE b

\* a finished delete_item or mark_complete whose batch repeats one name,
\* whose matching items all have ids and whose mutate calls all succeeded
RepeatedNameRun ==
    /\ pc = "done" /\ tool \in {"delete_item", "mark_complete"}
    /\ ret.kind # "error"
    /\ ~FetchFailed
    /\ \A k \in 1..Len(values_to_process) :
          /\ ~Blank(values_to_process[k])
          /\ SameName(values_to_process[k], values_to_process[1])
    /\ \A j \in IncompleteMatches(values_to_process[1]) :
          all_items.items[j].id # NoId
    /\ \A n \in MutateCalls : calls[n].ok

\* C27: delete_item (and likewise mark_complete) given the same normalized
\* name k times, against a snapshot holding m incomplete items with that
\* normalized value, all having ids and all mutate calls succeeding,
\* mutates min(k, m) distinct records, each exactly once and in snapshot
\* order, and records the other k - min(k, m) occurrences in not_found.
C27_MinOfNamesAndMatches ==
    RepeatedNameRun =>
        LET k == Len(values_to_process)
            M == IncompleteMatches(values_to_process[1])
            m == Cardinality(M)
            mutated == {calls[n].pos : n \in MutateCalls}
        IN /\ Cardinality(MutateCalls) = Min(k, m)
           /\ Cardinality(mutated) = Min(k, m)
           /\ mutated \subseteq M
           /\ \A j \in M : j \notin mutated => \A i \in mutated : i < j
           /\ \A a, b \in MutateCalls : a < b => calls[a].pos < calls[b].pos
           /\ \A n \in MutateCalls :
                 calls[n].id = all_items.items[calls[n].pos].id
           /\ Len(results[SuccessBucket]) = Min(k, m)
           /\ Len(results["not_found"]) = k - Min(k, m)

C27_Witness ==
    /\ RepeatedNameRun /\ tool = "delete_item"
    /\ Len(values_to_process) = 2
    /\ Cardinality(IncompleteMatches(values_to_process[1])) = 1
    /\ Len(all_items.items) = 2
    /\ Cardinality(MutateCalls) = 1
    /\ Len(results["not_found"]) = 1

\* ---------------------------------------------------------------------
\* the successful calls made so far for an earlier occurrence of the
\* name at hand
EarlierUnmarks ==
    {n \in MutateCalls :
        calls[n].ok /\ SameName(values_to_process[calls[n].k],
                                values_to_process[idx])}

C28_UnmarkKeepsItem ==
    (AtName /\ tool = "mark_incomplete" /\ Len(calls') = Len(calls) + 1
        /\ calls'[Len(calls')].ok) =>
        LET c == calls'[Len(calls')]
        IN /\ Len(searchable_items') = Len(searchable_items)
           /\ \A j \in 1..Len(searchable_items) :
                 searchable_items'[j] =
                     IF j = c.pos
                     THEN [searchable_items[j] EXCEPT !.completed = FALSE]
                     ELSE searchable_items[j]
           /\ searchable_items[c.pos].completed

C28_SecondOccurrenceStep ==
    (AtName /\ tool = "mark_incomplete" /\ EarlierUnmarks # {}) =>
        /\ calls' = calls
        /\ remote' = remote
        /\ searchable_items' = searchable_items
        /\ results' = [results EXCEPT !["already_incomplete"] =
                          Append(@, strip(values_to_process[idx]))]
        /\ \A n \in EarlierUnmarks :
              /\ ~searchable_items[calls[n].pos].completed
              /\ \A j \in 1..(calls[n].pos - 1) :
                    ~SameName(searchable_items[j].value, values_to_process[idx])

\* C28: in mark_incomplete a successfully unmarked item stays in the
\* candidate pool with its local completed flag set to false, so a second
\* occurrence of the same name in the batch re-matches that same item, is
\* recorded in already_incomplete and triggers no second remote call.
C28_UnmarkedStaysInPool ==
    [][C28_UnmarkKeepsItem /\ C28_SecondOccurrenceStep]_vars

C28_Witness ==
    /\ pc = "done" /\ tool = "mark_incomplete" /\ ret.kind # "error"
    /\ Len(values_to_process) = 2
    /\ SameName(values_to_process[1], values_to_process[2])
    /\ Len(results["unmarked"]) = 1
    /\ Len(results["already_incomplete"]) = 1
    /\ Cardinality(MutateCalls) = 1
    /\ \E n \in MutateCalls :
          /\ all_items.items[calls[n].pos].completed
          /\ ~searchable_items[calls[n].pos].completed

\* ---------------------------------------------------------------------
\* the positions of the pool of mark_incomplete whose value is that of v
PoolMatches(v) ==
    {j \in 1..Len(searchable_items) : SameName(searchable_items[j].value, v)}

\* the first item of the pool matching the name at hand is incomplete
FirstMatchIncomplete ==
    /\ AtName /\ tool = "mark_incomplete"
    /\ ~Blank(values_to_process[idx])
    /\ \E j \in PoolMatches(values_to_process[idx]) :
          /\ \A i \in PoolMatches(values_to_process[idx]) : j <= i
          /\ ~searchable_items[j].completed

C29_FirstMatchStep ==
    FirstMatchIncomplete =>
        /\ calls' = calls
        /\ remote' = remote
        /\ searchable_items' = searchable_items
        /\ results' = [results EXCEPT !["already_incomplete"] =
                          Append(@, strip(values_to_process[idx]))]

C29_OnlyFirstMatchUnmarked ==
    (InBatch /\ tool = "mark_incomplete") =>
        \A n \in MutateCalls :
            \A j \in 1..(calls[n].pos - 1) :
                ~SameName(all_items.items[j].value, calls[n].value)

\* C29: mark_incomplete considers only the first snapshot item whose
\* normalized value equals the name: when that first match is incomplete
\* the name is recorded in already_incomplete and no remote call is made,
\* even if a later item with the same normalized value is completed; the
\* later completed item is never unmarked by that batch.
C29_FirstMatchOnly == [](C29_OnlyFirstMatchUnmarked) /\ [][C29_FirstMatchStep]_vars

C29_Witness ==
    /\ pc = "done" /\ tool = "mark_incomplete" /\ ret.kind # "error"
    /\ Len(all_items.items) = 2
    /\ SameName(all_items.items[1].value, all_items.items[2].value)
    /\ ~all_items.items[1].completed /\ all_items.items[2].completed
    /\ \A k \in 1..Len(values_to_process) :
          SameName(values_to_process[k], all_items.items[1].value)
    /\ Len(results["already_incomplete"]) = Len(values_to_process)
    /\ MutateCalls = {}
    /\ Len(remote) = 2 /\ remote[2].completed

\* ---------------------------------------------------------------------
\* the completed items without id that the remote list holds
StuckItems == {k \in 1..Len(remote) :
                  remote[k].completed /\ remote[k].id = NoId}

StuckSeq(list) == SelectSeq(list, LAMBDA r : r.completed /\ r.id = NoId)

\* clear_completed_items has returned while such an item is in the list
ReturnedWithStuckItem == InClear /\ pc = "done" /\ StuckItems # {}

\* the run has made 10 iterations and 10 fetch calls and reports them
RanToCap ==
    /\ iteration = max_iterations
    /\ fetch_count = max_iterations
    /\ ret = clear_summary(max_iterations, total_deleted_count,
                           total_failed_items)

\* C30 as stated: if a completed item without an id stays in the remote
\* list, clear_completed_items performs exactly 10 iterations (10 fetch
\* calls) before it returns.
C30_StuckItemRunsToCap == ReturnedWithStuckItem => RanToCap

C30_ReturnsAtCapOrOnFetchFailure ==
    ReturnedWithStuckItem =>
        \/ RanToCap
        \/ /\ ret.kind = "error"
           /\ calls = <<FetchCall(FALSE)>>
           /\ iteration <= max_iterations

C30_StuckItemListedOnce ==
    (InClear /\ pc \in {"clear_loop", "done"}) =>
        \A k \in StuckItems :
            LET e == remote[k].value \o S_missing_id
                listed == {n \in 1..Len(total_failed_items) :
                              total_failed_items[n] = e}
            IN /\ Cardinality(listed) <= 1
               /\ (iteration >= 1 /\ ~all_items.is_none)
                     => Cardinality(listed) = 1
               /\ (pc = "done" /\ ret.kind # "error") =>
                     /\ Len(ret.lines) = 3
                     /\ ret.lines[3].names = total_failed_items
                     /\ Cardinality(listed) = 1

C30_StuckItemStep ==
    (InClear /\ pc = "clear_loop" /\ StuckItems # {}) =>
        /\ iteration' # iteration =>
              /\ \A n \in 1..Len(calls') :
                    calls'[n].op = "delete" =>
                        /\ calls'[n].id # NoId
                        /\ \A k \in StuckItems : calls'[n].pos # k
              /\ total_deleted_count' = total_deleted_count +
                    Cardinality({n \in 1..Len(calls') :
                                    calls'[n].op = "delete" /\ calls'[n].ok})
        /\ iteration' = iteration =>
              /\ calls' = calls
              /\ total_deleted_count' = total_deleted_count
        /\ StuckSeq(remote') = StuckSeq(remote)
        /\ (pc' = "done" /\ iteration' < max_iterations) => ret'.kind = "error"

\* C30 (amended): if a completed item without an id stays in the remote
\* list, clear_completed_items never leaves its loop because no completed
\* item is left: unless a fetch fails, which ends the run with the error,
\* it performs exactly 10 iterations (10 fetch calls); in none of them it
\* issues a delete call for that item or counts it as deleted, and it
\* lists the item exactly once in the failure list as
\* '<value> (Missing ID)'.
C30_StuckItemUntilCapOrError ==
    /\ [](C30_ReturnsAtCapOrOnFetchFailure)
    /\ [](C30_StuckItemListedOnce)
    /\ [][C30_StuckItemStep]_vars

C30_Witness ==
    /\ ReturnedWithStuckItem /\ RanToCap
    /\ total_deleted_count = 1
    /\ Len(total_failed_items) = 1
    /\ \E k \in StuckItems :
          total_failed_items[1] = remote[k].value \o S_missing_id

\* ---------------------------------------------------------------------
\* every completed item of the remote list has an id
CompletedHaveIds ==
    \A k \in 1..Len(remote) : remote[k].completed => remote[k].id # NoId

\* a pass of the loop whose fetch and delete calls all succeed, the
\* service dropping every item it reports as deleted
CooperativePass ==
    /\ InClear /\ pc = "clear_loop" /\ iteration' = iteration + 1
    /\ \A n \in 1..Len(calls') : calls'[n].ok
    /\ \A n \in 1..Len(calls') :
          calls'[n].op = "delete" =>
              \A k \in 1..Len(remote') : remote'[k].id # calls'[n].id

IncompleteOf(list) == SelectSeq(list, LAMBDA r : ~r.completed)

CompletedOf(list) == SelectSeq(list, LAMBDA r : r.completed)

C31_FirstPass ==
    (CooperativePass /\ iteration = 0 /\ CompletedHaveIds) =>
        LET n == Len(CompletedOf(remote))
        IN /\ IncompleteOf(remote') = IncompleteOf(remote)
           /\ CompletedOf(remote') = << >>
           /\ total_deleted_count' = n
           /\ total_failed_items' = << >>
           /\ Cardinality({k \in 1..Len(calls') : calls'[k].op = "delete"}) = n
           /\ IF n = 0
              THEN /\ pc' = "done"
                   /\ ret' = clear_summary(1, 0, << >>)
                   /\ calls' = <<FetchCall(TRUE)>>
              ELSE pc' = "clear_loop" /\ ret' = ret

C31_SecondPass ==
    (CooperativePass /\ iteration = 1 /\ CompletedOf(remote) = << >>) =>
        /\ total_failed_items = << >>
        /\ total_deleted_count >= 1
        /\ total_deleted_count = observed_completed
        /\ pc' = "done"
        /\ ret' = clear_summary(2, total_deleted_count, << >>)
        /\ calls' = <<FetchCall(TRUE)>>
        /\ remote' = remote

\* C31: when every fetch and every delete call succeeds, a successful
\* delete removes exactly that item from the remote list and every
\* completed item has an id, clear_completed_items started with n >= 1
\* completed items ends after exactly 2 iterations reporting Total
\* Deleted = n with no failures, leaving no completed item and every
\* incomplete item unchanged; started with n = 0 it ends after 1
\* iteration with Total Deleted = 0 and no delete call.
C31_CooperativeRun == [][C31_FirstPass /\ C31_SecondPass]_vars

C31_Witness ==
    /\ InClear /\ pc = "done"
    /\ iteration = 2 /\ fetch_count = 2
    /\ ret = clear_summary(2, 1, << >>)
    /\ Len(remote) = 1 /\ ~remote[1].completed

\* ---------------------------------------------------------------------
\* a batch tool has returned something other than an error
ReturnedSummary == tool \in BatchTools /\ pc = "done" /\ ret.kind # "error"

\* C32: the 'No actions performed or items provided.' sentinel is
\* unreachable in add_item, delete_item, mark_complete and
\* mark_incomplete: an invocation that passes the 'no valid item values'
\* check places at least one name in a bucket, so its summary is never
\* the sentinel.
C32_SentinelUnreachable ==
    /\ tool \in BatchTools => ret.kind # "sentinel"
    /\ ReturnedSummary =>
          /\ \E b \in DOMAIN results : results[b] # << >>
          /\ ret.kind = "summary"
          /\ ret.lines # << >>
          /\ \A n \in 1..Len(ret.lines) : ret.lines[n].names # << >>

C32_Witness ==
    /\ ReturnedSummary /\ tool = "mark_incomplete"
    /\ Len(values_to_process) = 2
    /\ Blank(values_to_process[1]) /\ ~Blank(values_to_process[2])
    /\ Len(ret.lines) = 1
    /\ ret.lines[1].names = <<strip(values_to_process[2])>>

\* ---------------------------------------------------------------------
\* a name that is not a string or is blank after trimming
NotAName(name) == name = PyNone \/ Blank(name)

C33_InvalidNameStep ==
    (tool \in ProxyTools /\ pc = "loop"
        /\ NotAName(values_to_process[idx])) =>
        /\ calls' = calls
        /\ results' = Append(results,
              [item |-> values_to_process[idx], success |-> FALSE,
               message |-> "Invalid item name provided."])
        /\ ~all_succeeded'

C33_InvalidNameFails ==
    (tool \in ProxyTools /\ pc = "done") =>
        /\ (\E k \in 1..Len(values_to_process) :
               NotAName(values_to_process[k])) => ~ret.success
        /\ \A n \in 1..Len(calls) : ~NotAName(values_to_process[calls[n].k])
        /\ values_to_process = << >> =>
              /\ calls = << >>
              /\ ret.success
              /\ ret.lines = << >>

\* C33: in the proxy batch tools a name that is not a string or is blank
\* after trimming triggers no backend request, is recorded in 'details'
\* as a failed entry ('Invalid item name provided.') and forces the
\* overall 'success' to false, whereas an empty list of names issues no
\* request and returns success true with empty details.
C33_InvalidNames == [](C33_InvalidNameFails) /\ [][C33_InvalidNameStep]_vars

C33_Witness ==
    /\ tool = "mark_item_completed" /\ pc = "done"
    /\ values_to_process = <<S_blank, S_milk>>
    /\ Len(calls) = 1 /\ calls[1].k = 2 /\ calls[1].ok
    /\ ret.lines[1] = [item |-> S_blank, success |-> FALSE,
                       message |-> "Invalid item name provided."]
    /\ ret.lines[2].success
    /\ ~ret.success

====
